---- MODULE Spec2Model ----
(***************************************************************************)
(* Synchronisation core of pm_app: the sync job ledger                     *)
(* (services/sync_job_service.py, repositories/sync_job_repository.py),    *)
(* the background execution harness (routers/sync.py) and the sync         *)
(* orchestrator (services/sync_service.py).                                *)
(*                                                                         *)
(* One project is modelled; a job's (project, kind) pair is therefore its  *)
(* kind.  Job ids are positions in the ledger, ActionItem ids positions in *)
(* the actions table.  Timestamps are values of a logical clock, 0 is the  *)
(* null timestamp, "" the null / empty string.                             *)
(***************************************************************************)
EXTENDS Integers, Sequences, FiniteSets, TLC

\* ------------------------------------------------------------------ bounds
MaxJobs == 2        \* ledger rows ever created
MaxReq == 2         \* enqueue requests in flight at once
MaxTrig == 1        \* synchronous POST /sync/{project_id} requests in flight
MaxBatch == 2       \* issues in one fetched list
MaxSyncs == 2       \* synchronous syncs run one after the other
MaxLedger == 2      \* ledger rows an incremental-window computation reads

\* ------------------------------------------------------------- vocabulary
JIRA == "jira"
PRECURSIVE == "precursive"
FULL == "full"
SyncJobType == {JIRA, PRECURSIVE, FULL}

QUEUED == "queued"
RUNNING == "running"
SUCCEEDED == "succeeded"
FAILED == "failed"
SyncJobStatus == {QUEUED, RUNNING, SUCCEEDED, FAILED}

Reqs == 1..MaxReq
JobIds == 1..MaxJobs
TrigIds == (1 - MaxTrig)..0
Ctx == TrigIds \cup JobIds

VARIABLES
    jobs,        \* the syncjob table: Seq of SyncJob rows, id = position
    reqs,        \* enqueue request handlers: position and last response
    scheduled,   \* background_tasks.add_task(run_sync_job, id, kind) calls, in order
    runs,        \* executions: run_sync_job per job id, trigger_sync per id <= 0
    clock,       \* datetime.now(): logical time
    raced,       \* history: kinds for which two enqueue requests overlapped
    project,     \* the project row (sync-relevant columns)
    actions,     \* the actionitem table of the project: Seq of rows, id = position
    risks,       \* the risk table of the project: Seq of rows
    remote,      \* the issues the tracker's search returns for the project
    synced,      \* history: the issue list of the latest committed issue pass
    call,        \* the latest application of a pure routine: arguments and result
    risk,        \* a Risk row as RiskService reads and updates it
    outcome      \* the latest RiskService call: arguments and how it ended

vars == <<jobs, reqs, scheduled, runs, clock, raced, project, actions, risks,
          remote, synced, call, risk, outcome>>

\* What the sync subsystem never touches, and what the risk service and the
\* pure routines never touch.
svcVars == <<call, risk, outcome>>
syncVars == <<jobs, reqs, scheduled, runs, raced, project, actions, risks,
              remote, synced>>

\* ------------------------------------------------------------------ ledger

\* SyncJob(project_id, job_type, status=QUEUED, requested_by_user_id)
SyncJob(job_type) ==
    [job_type |-> job_type, status |-> QUEUED, started_at |-> 0,
     completed_at |-> 0, error |-> "", items_synced |-> 0]

\* A wrong get_running_job: a queued job is not seen.
get_running_job_running_only(ledger, job_type) ==
    LET found == {j \in DOMAIN ledger : /\ ledger[j].job_type = job_type
                                       /\ ledger[j].status = RUNNING}
    IN  IF found = {} THEN {0} ELSE found

\* A wrong get_running_job: a running job is not seen.
get_running_job_queued_only(ledger, job_type) ==
    LET found == {j \in DOMAIN ledger : /\ ledger[j].job_type = job_type
                                       /\ ledger[j].status = QUEUED}
    IN  IF found = {} THEN {0} ELSE found

\* SyncJobRepository.get_running_job: .first() of the rows of the (project,
\* kind) whose status is queued or running, 0 for None.  The query has no
\* ORDER BY, so any matching row may come first.
get_running_job(ledger, job_type) ==
    LET found == {j \in DOMAIN ledger : /\ ledger[j].job_type = job_type
                                       /\ ledger[j].status \in {QUEUED, RUNNING}}
    IN  IF found = {} THEN {0} ELSE found

\* A wrong mark_running: the status is left as it was.
mark_running_no_status(job, now) ==
    [job EXCEPT !.started_at = now]

mark_running(job, now) ==
    [job EXCEPT !.status = RUNNING, !.started_at = now]

mark_succeeded(job, items_synced, now) ==
    [job EXCEPT !.status = SUCCEEDED, !.items_synced = items_synced,
                !.completed_at = now]

\* A wrong mark_failed: no completion timestamp.
mark_failed_no_timestamp(job, error, items_synced, now) ==
    [job EXCEPT !.status = FAILED, !.error = error, !.items_synced = items_synced]

mark_failed(job, error, items_synced, now) ==
    [job EXCEPT !.status = FAILED, !.error = error,
                !.items_synced = items_synced, !.completed_at = now]

\* ----------------------------------------------------- project key from URL

Upper == {"P", "K"}
Digit == {"7"}

\* The longest prefix of cs made of [A-Z0-9] characters.
RECURSIVE KeyChars(_)
KeyChars(cs) ==
    IF cs = <<>> \/ Head(cs) \notin (Upper \cup Digit) THEN <<>>
    ELSE <<Head(cs)>> \o KeyChars(Tail(cs))

RECURSIVE Join(_)
Join(cs) == IF cs = <<>> THEN "" ELSE Head(cs) \o Join(Tail(cs))

\* re.search(r"/projects/([A-Z][A-Z0-9]+)", url), then the same with /browse/:
\* group(1), or "" when neither pattern matches.  A URL is the path segment
\* before the key ("" for a null URL) and the characters that follow it.
ExtractJiraKey(url) ==
    IF /\ url.segment \in {"projects", "browse"}
       /\ url.rest # <<>>
       /\ Head(url.rest) \in Upper
       /\ Len(KeyChars(url.rest)) >= 2
    THEN Join(KeyChars(url.rest))
    ELSE ""

NoUrl == [segment |-> "", rest |-> <<>>]

\* ------------------------------------------------------- issue mapping

\* A field value of a type the mapping cannot process (status.lower() raises).
NotAString == "<not-a-string>"

\* str.lower() on the status and priority names the tracker uses.
Lower(s) ==
    CASE s = "Done" -> "done"
      [] s = "In Progress" -> "in progress"
      [] s = "To Do" -> "to do"
      [] s = "Waiting" -> "waiting"
      [] s = "High" -> "high"
      [] s = "Low" -> "low"
      [] s = "Normal" -> "normal"
      [] OTHER -> s

\* SyncService._map_jira_status; the value, or "raise" for a non-string.
map_jira_status(status) ==
    IF status = "" THEN "NO_STATUS"
    ELSE IF status = NotAString THEN "raise"
    ELSE IF Lower(status) \in {"done", "complete", "closed", "resolved"} THEN "COMPLETE"
    ELSE IF Lower(status) \in {"in progress", "in review", "qa"} THEN "IN_PROGRESS"
    ELSE IF Lower(status) \in {"to do", "backlog", "open", "new", "created"} THEN "TO_DO"
    ELSE "NO_STATUS"

\* SyncService._map_jira_priority
map_jira_priority(priority) ==
    IF priority = "" THEN "MEDIUM"
    ELSE IF Lower(priority) \in {"high", "critical", "blocker"} THEN "HIGH"
    ELSE IF Lower(priority) \in {"low", "trivial"} THEN "LOW"
    ELSE "MEDIUM"

\* datetime.strptime(s, "%Y-%m-%d"): the datetime at midnight, or "ValueError".
ValidDates == {"2024-01-15", "2024-02-20"}
strptime(s) == IF s \in ValidDates THEN s \o "T00:00:00" ELSE "ValueError"

\* The update branch of the loop body (existing row found), lines 302-322.
\* [row, raised]: the row as the session holds it afterwards.
UpdateExisting(existing, issue) ==
    LET r1 == [existing EXCEPT
                 !.title = IF issue.summary # "" THEN issue.summary ELSE existing.title]
    IN  IF map_jira_status(issue.status) = "raise"
        THEN [row |-> r1, raised |-> TRUE]
        ELSE [row |-> [r1 EXCEPT
                         !.status = map_jira_status(issue.status),
                         !.assignee = issue.assignee,
                         !.priority = map_jira_priority(issue.priority),
                         !.jira_id = issue.id,
                         !.jira_key = issue.key,
                         !.due_date =
                            IF issue.due_date # "" /\ strptime(issue.due_date) # "ValueError"
                            THEN strptime(issue.due_date)
                            ELSE r1.due_date],
              raised |-> FALSE]

\* The insert branch of the loop body, lines 324-347: the new rows (none when
\* building the ActionItem raises).
NewAction(issue) ==
    IF map_jira_status(issue.status) = "raise" THEN <<>>
    ELSE <<[jira_key |-> issue.key,
            jira_id |-> issue.id,
            title |-> IF issue.summary # "" THEN issue.summary ELSE "Untitled",
            status |-> map_jira_status(issue.status),
            assignee |-> issue.assignee,
            priority |-> map_jira_priority(issue.priority),
            due_date |-> IF issue.due_date # "" /\ strptime(issue.due_date) # "ValueError"
                         THEN strptime(issue.due_date) ELSE ""]>>

\* action_by_jira_key = {a.jira_key: a for a in existing_actions if a.jira_key}:
\* the dictionaries the comprehension can build.  The SELECT has no ORDER BY,
\* so of several rows with one key any may be the one the dictionary keeps.
ActionByJiraKey(rows) ==
    LET keys == {rows[i].jira_key : i \in DOMAIN rows} \ {""}
    IN  {d \in [keys -> DOMAIN rows] : \A k \in keys : rows[d[k]].jira_key = k}

\* A wrong loop: no per-issue try, the first issue that raises ends the loop.
RECURSIVE UpsertIssues_abort(_, _, _)
UpsertIssues_abort(work, issues, by_key) ==
    IF issues = <<>> \/ map_jira_status(Head(issues).status) = "raise" THEN work
    ELSE LET issue == Head(issues)
             next ==
                IF issue.key \in DOMAIN by_key
                THEN LET i == by_key[issue.key]
                     IN  [work EXCEPT
                            !.rows[i] = UpdateExisting(work.rows[i], issue).row,
                            !.dirty = @ \cup {i}]
                ELSE [work EXCEPT !.new = @ \o NewAction(issue)]
         IN  UpsertIssues_abort(next, Tail(issues), by_key)

\* The loop of lines 296-353 over the fetched issues.  work.rows is the
\* session's copy of the pre-fetched rows, work.dirty the rows it modified,
\* work.new the rows it added.
RECURSIVE UpsertIssues(_, _, _)
UpsertIssues(work, issues, by_key) ==
    IF issues = <<>> THEN work
    ELSE LET issue == Head(issues)
             next ==
                IF issue.key \in DOMAIN by_key
                THEN LET i == by_key[issue.key]
                     IN  [work EXCEPT
                            !.rows[i] = UpdateExisting(work.rows[i], issue).row,
                            !.dirty = @ \cup {i}]
                ELSE [work EXCEPT !.new = @ \o NewAction(issue)]
         IN  UpsertIssues(next, Tail(issues), by_key)

NoWork == [rows |-> <<>>, dirty |-> {}, new |-> <<>>]

\* A wrong commit: the inserts become visible without the updates.
CommitActions_inserts_only(table, work) ==
    table \o work.new

\* session.commit() of an issue pass: the UPDATEs of the modified rows and
\* the INSERTs of the added ones, applied to the table as it is now.
CommitActions(table, work) ==
    [i \in DOMAIN table |-> IF i \in work.dirty THEN work.rows[i] ELSE table[i]]
        \o work.new

\* ------------------------------------------------------------ risk mapping

\* SyncService._map_risk_level_to_probability ("high" in level.lower(), ...);
\* "raise" for a level that is not a string.
map_risk_level_to_probability(risk_level) ==
    IF risk_level = "" THEN "MEDIUM"
    ELSE IF risk_level = NotAString THEN "raise"
    ELSE IF Lower(risk_level) \in {"high", "very high"} THEN "HIGH"
    ELSE IF Lower(risk_level) \in {"low", "very low"} THEN "LOW"
    ELSE "MEDIUM"

\* What a session holds for the risk table and has not committed: nothing,
\* a new row, or new values for row i.
NoRiskWork == [op |-> "none", i |-> 0, probability |-> ""]

\* SyncService._sync_precursive_embedded_risk: the upsert by source tag, as
\* the session holds it until the commit.  The SELECT's .first() has no
\* ORDER BY; the table never holds two such rows unless this code put them.
sync_precursive_embedded_risk(table, pp) ==
    LET mine == {i \in DOMAIN table : table[i].source = "precursive"}
        prob == map_risk_level_to_probability(pp.risk_level)
    IN  IF mine # {}
        THEN {[op |-> "update", i |-> i, probability |-> prob] : i \in mine}
        ELSE {[op |-> "insert", i |-> 0, probability |-> prob]}

\* The commit of the risk step: the UPDATE of the row, or the INSERT of the
\* new one, applied to the table as it is now.
CommitRisk(table, work) ==
    IF work.op = "update"
    THEN [table EXCEPT ![work.i].probability = work.probability,
                       ![work.i].impact = work.probability]
    ELSE IF work.op = "insert"
    THEN Append(table, [source |-> "precursive", title |-> "Overall Project Risk",
                        probability |-> work.probability, impact |-> work.probability,
                        status |-> "OPEN"])
    ELSE table

\* ------------------------------------------------- financial derivation

\* Optional[float]: None, or a value.
None == <<>>
Some(x) == <<x>>
Val(o) == o[1]

\* A figure the CRM sent as text: the field holds a str, on which the
\* arithmetic and the comparisons of the budget routines raise TypeError.
NotANumber == <<"n/a", "str">>
IsNumber(o) == Len(o) = 1

\* bool(x) of an Optional[float]: None and 0 are false (a non-empty str is
\* true).
Truthy(o) == o # None /\ (~IsNumber(o) \/ Val(o) # 0)

\* Whether compute_total_budget raises: its first strategy multiplies and
\* compares the two figures as soon as both are present.
compute_total_budget_raises(f) ==
    /\ f.total_fte_days # None
    /\ f.fte_day_price # None
    /\ ~IsNumber(f.total_fte_days) \/ ~IsNumber(f.fte_day_price)

\* sum(filter(None, [pm_budget, sa_budget, de_budget, ds_budget]))
RECURSIVE SumTruthy(_)
SumTruthy(os) ==
    IF os = <<>> THEN 0
    ELSE (IF Truthy(Head(os)) THEN Val(Head(os)) ELSE 0) + SumTruthy(Tail(os))

RoleDays(f) == SumTruthy(<<f.pm_budget, f.sa_budget, f.de_budget, f.ds_budget>>)

\* A wrong compute_total_budget: the role budgets are summed without the rate.
compute_total_budget_no_rate(f) ==
    IF /\ f.total_fte_days # None /\ f.fte_day_price # None
       /\ Val(f.total_fte_days) * Val(f.fte_day_price) > 0
    THEN Some(Val(f.total_fte_days) * Val(f.fte_day_price))
    ELSE IF RoleDays(f) > 0
    THEN Some(RoleDays(f))
    ELSE None

\* PrecursiveFinancials.compute_total_budget
compute_total_budget(f) ==
    IF /\ f.total_fte_days # None /\ f.fte_day_price # None
       /\ Val(f.total_fte_days) * Val(f.fte_day_price) > 0
    THEN Some(Val(f.total_fte_days) * Val(f.fte_day_price))
    ELSE IF f.fte_day_price # None /\ RoleDays(f) > 0
    THEN Some(RoleDays(f) * Val(f.fte_day_price))
    ELSE None

\* PrecursiveFinancials.compute_spent_budget
compute_spent_budget(f) ==
    IF compute_total_budget(f) # None /\ f.remaining_budget # None
    THEN Some(Val(compute_total_budget(f)) - Val(f.remaining_budget))
    ELSE None

\* PrecursiveFinancials.has_any_financial_data (the fields the model carries)
has_any_financial_data(f) ==
    \/ Truthy(f.remaining_budget) \/ Truthy(f.total_fte_days)
    \/ Truthy(f.fte_day_price) \/ Truthy(f.overrun_investment)
    \/ Truthy(f.pm_budget) \/ Truthy(f.sa_budget)
    \/ Truthy(f.de_budget) \/ Truthy(f.ds_budget)

\* ------------------------------------------------------ Salesforce client

\* The client's cached token and HTTP client.
ClientStates ==
    {[token |-> FALSE, client |-> "none"],
     [token |-> TRUE, client |-> "open"],
     [token |-> TRUE, client |-> "closed"]}

StatusCodes == {200, 401, 500}

\* SalesforcePrecursiveClient._get_client: authenticates when no token is
\* cached (auth_ok: whether _authenticate returns), opens a client when none
\* is open.  auths: the calls of _authenticate made.
get_client(st, auth_ok) ==
    IF ~st.token /\ ~auth_ok
    THEN [token |-> FALSE, client |-> st.client, auths |-> 1, raised |-> TRUE]
    ELSE [token |-> TRUE, client |-> "open",
          auths |-> IF st.token THEN 0 ELSE 1, raised |-> FALSE]

\* SalesforcePrecursiveClient._query.  first, second: the status codes the
\* server gives to the first and the second GET; auth_ok, reauth_ok: whether
\* the authentications go through.  gets: the GETs sent; discarded: whether
\* the cached token was dropped after the 401; reauths: the authentications
\* made after the 401.
query(st, first, second, auth_ok, reauth_ok) ==
    LET c1 == get_client(st, auth_ok)
        stale == ~c1.token \/ c1.client \in {"none", "closed"}
        c2 == IF stale THEN get_client([token |-> FALSE, client |-> "none"], reauth_ok)
              ELSE [c1 EXCEPT !.auths = 0]
    IN  IF c1.raised
        THEN [error |-> "IntegrationError", gets |-> 0, discarded |-> FALSE,
              auths |-> c1.auths, reauths |-> 0]
        ELSE IF first # 401
        THEN [error |-> IF first = 200 THEN "" ELSE "IntegrationError", gets |-> 1,
              discarded |-> FALSE, auths |-> c1.auths, reauths |-> 0]
        ELSE IF c2.raised
        THEN [error |-> "IntegrationError", gets |-> 1, discarded |-> stale,
              auths |-> c1.auths, reauths |-> c2.auths]
        ELSE [error |-> IF second = 200 THEN "" ELSE "IntegrationError", gets |-> 2,
              discarded |-> stale, auths |-> c1.auths, reauths |-> c2.auths]

\* ---------------------------------------------------- incremental window

INCREMENTAL_SYNC_BACKFILL_MINUTES == 5
MinutesPerDay == 1440

\* A wrong get_last_successful_job: the latest job of the kind that ended,
\* whatever its status.
get_last_successful_job_any_status(ledger, job_type) ==
    LET ok == {j \in DOMAIN ledger : /\ ledger[j].job_type = job_type
                                    /\ ledger[j].completed_at # 0}
    IN  IF ok = {} THEN 0
        ELSE CHOOSE j \in ok : \A i \in ok : ledger[i].completed_at <= ledger[j].completed_at

\* SyncJobRepository.get_last_successful_job: the succeeded job of the kind
\* with the latest completed_at, 0 for None.
get_last_successful_job(ledger, job_type) ==
    LET ok == {j \in DOMAIN ledger : /\ ledger[j].job_type = job_type
                                    /\ ledger[j].status = SUCCEEDED}
    IN  IF ok = {} THEN 0
        ELSE CHOOSE j \in ok : \A i \in ok : ledger[i].completed_at <= ledger[j].completed_at

\* SyncService._get_last_successful_jira_sync: a time in minutes, 0 for None.
get_last_successful_jira_sync(ledger) ==
    LET last_job == get_last_successful_job(ledger, JIRA)
    IN  IF last_job # 0 /\ ledger[last_job].completed_at # 0
        THEN ledger[last_job].completed_at
        ELSE 0

\* datetime.strftime("%Y-%m-%d"): the date alone, as a day number.
strftime_date(t) == t \div MinutesPerDay

\* A wrong updated_since: no backfill margin.
updated_since_no_margin(ledger, force_full) ==
    LET last_sync_time == get_last_successful_jira_sync(ledger)
    IN  IF ~force_full /\ last_sync_time # 0
        THEN Some(strftime_date(last_sync_time))
        ELSE None

\* sync_jira_data, lines 263-277: the updated_since argument of the fetch.
updated_since(ledger, force_full) ==
    LET last_sync_time == get_last_successful_jira_sync(ledger)
    IN  IF ~force_full /\ last_sync_time # 0
        THEN Some(strftime_date(last_sync_time - INCREMENTAL_SYNC_BACKFILL_MINUTES))
        ELSE None

\* ------------------------------------------------------------- executions

JiraSyncResult(success) ==
    [success |-> success, actions_count |-> 0, message |-> "", error |-> ""]

PrecursiveSyncResult(success) ==
    [success |-> success, financials_updated |-> FALSE, risks_count |-> 0,
     message |-> "", error |-> ""]

\* The changes to the project row a session holds and has not committed
\* (session.add without commit): per column None, or the new value.
NoStaged ==
    [precursive_id |-> None, total_budget |-> None, spent_budget |-> None,
     remaining_budget |-> None]

\* A commit on the session writes the changed columns to the row.
Flush(proj, staged) ==
    [proj EXCEPT
       !.precursive_id = IF staged.precursive_id # None
                         THEN Val(staged.precursive_id) ELSE @,
       !.total_budget = IF staged.total_budget # None
                        THEN Val(staged.total_budget) ELSE @,
       !.spent_budget = IF staged.spent_budget # None
                        THEN Val(staged.spent_budget) ELSE @,
       !.remaining_budget = IF staged.remaining_budget # None
                            THEN Val(staged.remaining_budget) ELSE @]

\* An execution that is not running.  broken: the session's transaction failed
\* and was not rolled back, so the session's next statement or commit raises.
\* The database session an execution works through: the one FastAPI gives a
\* request handler (SessionDep, closed when the handler returns), or one the
\* execution opens for itself.
NoSession == [owner |-> "none", id |-> 0]
RequestSession(q) == [owner |-> "request", id |-> q]

\* A wrong run_sync_job: the task works through the session of the request.
RunSession_of_request(j) == [owner |-> "request", id |-> j]

\* run_sync_job, line 53: get_session_context() opens a session of the task.
RunSession(j) == [owner |-> "job", id |-> j]

\* staged: the project changes pending in the session; resolved: the links
\* this execution looked an external id up from; remote_data: what the CRM
\* returned to the delivery stage.
Idle ==
    [pc |-> "idle", kind |-> "", broken |-> FALSE, work |-> NoWork,
     fetched |-> <<>>, items_synced |-> 0, error_message |-> "",
     exception |-> "", jira |-> JiraSyncResult(FALSE), precursive |-> PrecursiveSyncResult(FALSE),
     session |-> NoSession, staged |-> NoStaged, risk_work |-> NoRiskWork,
     resolved |-> {},
     remote_data |-> [financials |-> None, financial |-> FALSE, risk |-> FALSE,
                      bad_figures |-> FALSE, bad_level |-> FALSE]]

\* The start of sync_jira_data, lines 224-243: the key is taken from the URL
\* and committed (commit_ok: whether that commit goes through).  raised: the
\* exception that escapes; fetch: whether the pass goes on to the remote call.
JiraPrologue(proj, commit_ok) ==
    LET res == JiraSyncResult(TRUE)
        key == IF proj.jira_project_key = "" /\ proj.jira_url # NoUrl
               THEN ExtractJiraKey(proj.jira_url) ELSE ""
        p2 == IF key # "" THEN [proj EXCEPT !.jira_project_key = key] ELSE proj
        parsed == proj.jira_project_key = "" /\ proj.jira_url # NoUrl
    IN  IF key # "" /\ ~commit_ok
        THEN [res |-> res, project |-> proj, raised |-> "commit failed", fetch |-> FALSE,
              parsed |-> parsed]
        ELSE IF p2.jira_project_key = ""
        THEN [res |-> [res EXCEPT !.success = FALSE,
                                  !.message = "No Jira project key configured"],
              project |-> p2, raised |-> "", fetch |-> FALSE, parsed |-> parsed]
        ELSE [res |-> res, project |-> p2, raised |-> "", fetch |-> TRUE,
              parsed |-> parsed]

\* Whether the prologue commits at all (so that its commit can fail).
PrologueCommits(proj) ==
    /\ proj.jira_project_key = ""
    /\ proj.jira_url # NoUrl
    /\ ExtractJiraKey(proj.jira_url) # ""

\* A wrong sync_project: a failed issue stage ends the sync.
AfterJira_skip(r) ==
    IF r.kind = JIRA
    THEN [r EXCEPT !.items_synced = r.jira.actions_count,
                   !.error_message = r.jira.error,
                   !.pc = "close"]
    ELSE IF r.jira.error # "" THEN [r EXCEPT !.pc = "close"]
    ELSE [r EXCEPT !.pc = "precursive"]

\* What follows the return of sync_jira_data in its caller: run_sync_job for
\* kind jira (lines 78-81), sync_project otherwise (line 165, then line 175).
AfterJira(r) ==
    IF r.kind = JIRA
    THEN [r EXCEPT !.items_synced = r.jira.actions_count,
                   !.error_message = r.jira.error,
                   !.pc = "close"]
    ELSE [r EXCEPT !.pc = "precursive"]

\* sync_project, lines 150-173: the issue area of a full sync up to its first
\* remote call.  An exception of sync_jira_data is recorded on the area and
\* the session rolled back.  [run, project].
SyncProjectStart(r, proj, commit_ok) ==
    LET pro == JiraPrologue(proj, commit_ok)
        r0 == [r EXCEPT !.jira = JiraSyncResult(FALSE),
                        !.precursive = PrecursiveSyncResult(FALSE),
                        !.resolved = IF pro.parsed THEN {"jira_url"} ELSE {}]
    IN  IF proj.jira_project_key # "" \/ proj.jira_url # NoUrl
        THEN IF pro.raised # ""
             THEN [run |-> AfterJira([r0 EXCEPT !.jira.error = pro.raised]),
                   project |-> proj]
             ELSE IF pro.fetch
             THEN [run |-> [r0 EXCEPT !.jira = pro.res, !.pc = "jira"],
                   project |-> pro.project]
             ELSE [run |-> AfterJira([r0 EXCEPT !.jira = pro.res]),
                   project |-> pro.project]
        ELSE [run |-> AfterJira([r0 EXCEPT !.jira.message = "Jira not configured"]),
              project |-> proj]

\* run_sync_job, lines 67-90, from the project lookup to the first remote call
\* of the routine the job's kind selects.  [run, project].
RunDispatch(r, proj, commit_ok) ==
    IF ~proj.exists
    THEN [run |-> [r EXCEPT !.exception = "Project not found",
                            !.error_message = "Project not found",
                            !.pc = "mark"],
          project |-> proj]
    ELSE IF r.kind = JIRA
    THEN LET pro == JiraPrologue(proj, commit_ok)
             r0 == [r EXCEPT !.resolved = IF pro.parsed THEN {"jira_url"} ELSE {}]
         IN  IF pro.raised # ""
             THEN [run |-> [r0 EXCEPT !.broken = TRUE, !.exception = pro.raised,
                                      !.error_message = pro.raised, !.pc = "close"],
                   project |-> proj]
             ELSE IF pro.fetch
             THEN [run |-> [r0 EXCEPT !.jira = pro.res, !.pc = "jira"],
                   project |-> pro.project]
             ELSE [run |-> AfterJira([r0 EXCEPT !.jira = pro.res]),
                   project |-> pro.project]
    ELSE IF r.kind = PRECURSIVE
    THEN [run |-> [r EXCEPT !.pc = "precursive"], project |-> proj]
    ELSE SyncProjectStart(r, proj, commit_ok)

\* run_sync_job, lines 91-100: the error of a full sync.
FullError(jira_error, precursive_error) ==
    IF jira_error # "" /\ precursive_error # ""
    THEN "Jira: " \o jira_error \o "; " \o "Precursive: " \o precursive_error
    ELSE IF jira_error # "" THEN "Jira: " \o jira_error
    ELSE IF precursive_error # "" THEN "Precursive: " \o precursive_error
    ELSE ""

\* A wrong step 1: the stored URL is resolved whenever there is one.
PrecursiveLookup_always_url(proj) ==
    IF proj.precursive_url # "" THEN "by_url"
    ELSE IF proj.precursive_id # "" THEN "by_id"
    ELSE "none"

\* sync_precursive_data, step 1: which lookup of the CRM project is made.
PrecursiveLookup(proj) ==
    IF proj.precursive_id = "" /\ proj.precursive_url # "" THEN "by_url"
    ELSE IF proj.precursive_id # "" THEN "by_id"
    ELSE "none"

\* sync_precursive_data, step 2: the budget columns assigned from the
\* financials, and whether anything was updated.
StageFinancials(fin) ==
    LET f == Val(fin)
        total == compute_total_budget(f)
        spent == compute_spent_budget(f)
    IN  IF fin = None THEN [staged |-> NoStaged, updated |-> FALSE, error |-> ""]
        ELSE IF ~has_any_financial_data(f)
        THEN [staged |-> NoStaged, updated |-> FALSE, error |-> ""]
        ELSE IF compute_total_budget_raises(f)
        THEN [staged |-> NoStaged, updated |-> FALSE,
              error |-> "Financials sync failed: not a number"]
        ELSE IF total # None /\ Val(total) > 0
        THEN [staged |-> [NoStaged EXCEPT
                            !.total_budget = Some(total),
                            !.spent_budget = IF spent # None THEN Some(spent) ELSE None,
                            !.remaining_budget = IF f.remaining_budget # None
                                                 THEN Some(f.remaining_budget) ELSE None],
              updated |-> TRUE, error |-> ""]
        ELSE IF f.remaining_budget # None
        THEN [staged |-> [NoStaged EXCEPT !.remaining_budget = Some(f.remaining_budget)],
              updated |-> TRUE, error |-> ""]
        ELSE [staged |-> NoStaged, updated |-> f.overrun_investment # None, error |-> ""]

\* A wrong end of sync_precursive_data: only the first error is reported.
JoinErrors_first_only(financials_error, risk_error) ==
    IF financials_error # "" THEN financials_error ELSE risk_error

\* sync_precursive_data, lines 620-622: "; ".join(errors).
JoinErrors(financials_error, risk_error) ==
    IF financials_error # "" /\ risk_error # ""
    THEN financials_error \o "; " \o risk_error
    ELSE financials_error \o risk_error

\* What follows the return of sync_precursive_data in its caller:
\* run_sync_job for kind precursive (lines 84-87); otherwise sync_project's
\* last step (lines 190-200: the commit of last_synced_at, and a rollback when
\* that commit raises), then run_sync_job for kind full (lines 90-100).
AfterPrecursive(r) ==
    IF r.kind = PRECURSIVE
    THEN [r EXCEPT !.items_synced = r.precursive.risks_count,
                   !.error_message = r.precursive.error,
                   !.pc = "close"]
    ELSE IF r.kind = FULL
    THEN [r EXCEPT !.broken = FALSE,
                   !.items_synced = r.jira.actions_count + r.precursive.risks_count,
                   !.error_message = FullError(r.jira.error, r.precursive.error),
                   !.pc = "close"]
    ELSE [r EXCEPT !.broken = FALSE, !.pc = "close"]

\* --------------------------------------------------------- remote inputs

IssueKeys == {"PK-1", "PK-2"}

\* The field values one issue can carry (each optional field present or
\* absent, a due date that parses or not, a status of the wrong type).
IssueShapes ==
    {[summary |-> "Fix login", status |-> "Done", assignee |-> "Amy",
      priority |-> "High", due_date |-> "2024-01-15"],
     [summary |-> "", status |-> "To Do", assignee |-> "",
      priority |-> "", due_date |-> ""],
     [summary |-> "Fix login", status |-> "In Progress", assignee |-> "Amy",
      priority |-> "Low", due_date |-> "15/01/2024"],
     [summary |-> "Ship it", status |-> NotAString, assignee |-> "",
      priority |-> "Normal", due_date |-> "2024-02-20"]}

JiraIssue(key, shape) ==
    [key |-> key, id |-> "id:" \o key, summary |-> shape.summary,
     status |-> shape.status, assignee |-> shape.assignee,
     priority |-> shape.priority, due_date |-> shape.due_date]

RemoteIssues == {JiraIssue(k, sh) : k \in IssueKeys, sh \in IssueShapes}

RemoteLists == UNION {[1..n -> RemoteIssues] : n \in 0..MaxBatch}

\* The project as the CRM returns it (None: no link, not found, or the call
\* failed), with its embedded risk indicator.
NoPrecursiveProject == [found |-> FALSE, id |-> "", risk_level |-> ""]
PrecursiveProjects ==
    {NoPrecursiveProject} \cup
    {[found |-> TRUE, id |-> "P1", risk_level |-> l] : l \in {"", "High", NotAString}}

\* The financials the CRM returns for a project: every figure absent, the
\* remaining budget alone, days, day price and remaining budget, or these
\* with the days sent as text, or a remaining budget of 0 alone.
EmptyFinancials ==
    [remaining_budget |-> None, total_fte_days |-> None, fte_day_price |-> None,
     overrun_investment |-> None, pm_budget |-> None, sa_budget |-> None,
     de_budget |-> None, ds_budget |-> None]
RemainingOnly == [EmptyFinancials EXCEPT !.remaining_budget = Some(200)]
FullFinancials ==
    [EmptyFinancials EXCEPT !.remaining_budget = Some(200),
                            !.total_fte_days = Some(10),
                            !.fte_day_price = Some(500)]
TextFinancials == [FullFinancials EXCEPT !.total_fte_days = NotANumber]
ZeroRemaining == [EmptyFinancials EXCEPT !.remaining_budget = Some(0)]

\* get_project_financials: None when the call fails or finds nothing.
NoFinancials == {None}
JobFinancials == {None, Some(FullFinancials)}
LinkFinancials ==
    {None, Some(EmptyFinancials), Some(RemainingOnly), Some(FullFinancials),
     Some(TextFinancials), Some(ZeroRemaining)}

\* ------------------------------------------------------------------- Init

ProjectLinks ==
    {<<"PK", NoUrl>>,
     <<"", [segment |-> "projects", rest |-> <<"P", "K", "7", "/">>]>>,
     <<"", [segment |-> "projects", rest |-> <<"p", "k">>]>>,
     <<"", NoUrl>>}

\* The delivery link of a project: [precursive_id, precursive_url].
PrecursiveLinks == {<<"P1", "">>, <<"", "https://crm/P1">>, <<"", "">>}

\* A project row with a resolved delivery link and no cached budget.
ProjectRow(jira, precursive) ==
    [exists |-> TRUE, jira_project_key |-> jira[1], jira_url |-> jira[2],
     precursive_id |-> precursive[1], precursive_url |-> precursive[2],
     total_budget |-> None, spent_budget |-> None, remaining_budget |-> None,
     last_synced_at |-> 0]

InitProjects == {ProjectRow(l, <<"P1", "">>) : l \in ProjectLinks}

\* The issues the tracker holds when the system starts.
InitRemote ==
    <<JiraIssue("PK-1", CHOOSE sh \in IssueShapes : sh.status = "Done")>>

\* No pure routine applied yet.
NoCall == [fn |-> "none"]

\* Risk.status values, and an open Risk nobody has resolved.
OPEN == "Open"
CLOSED == "Closed"
MITIGATED == "Mitigated"
RiskStatus == {OPEN, CLOSED, MITIGATED}

NewRisk ==
    [status |-> OPEN, decision_record |-> None, resolved_at |-> None,
     resolved_by_id |-> None, reopen_reason |-> None, reopened_at |-> None,
     reopened_by_id |-> None]

NoOutcome == [op |-> "none"]

\* A request handler.  rival: the job another request of the same kind
\* committed between this request's query and its own commit (0: none).
NoRequest == [pc |-> "idle", kind |-> "", job |-> 0, deduplicated |-> FALSE,
              rival |-> 0]

InitWith(projects) ==
    /\ jobs = <<>>
    /\ reqs = [q \in Reqs |-> NoRequest]
    /\ scheduled = <<>>
    /\ runs = [c \in Ctx |-> Idle]
    /\ clock = 1
    /\ raced = {}
    /\ project \in projects
    /\ actions = <<>>
    /\ risks = <<>>
    /\ remote = InitRemote
    /\ synced = [valid |-> FALSE, issues |-> <<>>]
    /\ call = NoCall
    /\ risk = NewRisk
    /\ outcome = NoOutcome

Init == InitWith(InitProjects)

\* ------------------------------------------------------ enqueue requests

PendingCreates(k) == {q \in Reqs : reqs[q].pc = "create" /\ reqs[q].kind = k}

\* sync_jira_only / sync_precursive_only up to the query of
\* enqueue_or_get_existing (line 131); with an active job found, to the end of
\* the handler (deduplicated, nothing scheduled).
EnqueueCheck(q, k) ==
    /\ reqs[q].pc \in {"idle", "done"}
    /\ project.exists
    /\ Len(jobs) + Cardinality({p \in Reqs : reqs[p].pc = "create"}) < MaxJobs
    /\ \E existing \in get_running_job(jobs, k) :
         reqs' = [reqs EXCEPT ![q] =
                    IF existing # 0
                    THEN [pc |-> "done", kind |-> k, job |-> existing,
                          deduplicated |-> TRUE, rival |-> 0]
                    ELSE [pc |-> "create", kind |-> k, job |-> 0,
                          deduplicated |-> FALSE, rival |-> 0]]
    /\ raced' = IF PendingCreates(k) # {} THEN raced \cup {k} ELSE raced
    /\ UNCHANGED svcVars
    /\ UNCHANGED <<jobs, scheduled, runs, clock, project, actions, risks, remote, synced>>

\* A wrong enqueue_sync_job: the background task is not added.
EnqueueCreate_no_task(q) ==
    /\ reqs[q].pc = "create"
    /\ Len(jobs) < MaxJobs
    /\ jobs' = Append(jobs, SyncJob(reqs[q].kind))
    /\ runs' = [runs EXCEPT ![Len(jobs) + 1] = [Idle EXCEPT !.kind = reqs[q].kind]]
    /\ reqs' = [p \in Reqs |->
                  IF p = q
                  THEN [reqs[q] EXCEPT !.pc = "done", !.job = Len(jobs) + 1,
                                       !.deduplicated = FALSE]
                  ELSE IF p \in PendingCreates(reqs[q].kind) /\ reqs[p].rival = 0
                  THEN [reqs[p] EXCEPT !.rival = Len(jobs) + 1]
                  ELSE reqs[p]]
    /\ UNCHANGED svcVars
    /\ UNCHANGED <<scheduled, clock, raced, project, actions, risks, remote, synced>>

\* create_job (lines 71-79), the return of enqueue_or_get_existing and the
\* rest of enqueue_sync_job (line 147: the background task is added).
EnqueueCreate(q) ==
    /\ reqs[q].pc = "create"
    /\ Len(jobs) < MaxJobs
    /\ jobs' = Append(jobs, SyncJob(reqs[q].kind))
    /\ scheduled' = Append(scheduled, Len(jobs) + 1)
    /\ runs' = [runs EXCEPT ![Len(jobs) + 1] =
                  [Idle EXCEPT !.pc = "scheduled", !.kind = reqs[q].kind]]
    /\ reqs' = [p \in Reqs |->
                  IF p = q
                  THEN [reqs[q] EXCEPT !.pc = "done", !.job = Len(jobs) + 1,
                                       !.deduplicated = FALSE]
                  ELSE IF p \in PendingCreates(reqs[q].kind) /\ reqs[p].rival = 0
                  THEN [reqs[p] EXCEPT !.rival = Len(jobs) + 1]
                  ELSE reqs[p]]
    /\ UNCHANGED svcVars
    /\ UNCHANGED <<clock, raced, project, actions, risks, remote, synced>>

\* --------------------------------------------------- background execution

\* run_sync_job, lines 53-90: the job is read and marked running (one commit),
\* the project looked up and the routine of the job's kind started.
RunStart(j, commit_ok) ==
    /\ j \in DOMAIN jobs
    /\ runs[j].pc = "scheduled"
    /\ commit_ok \/ (project.exists /\ runs[j].kind # PRECURSIVE /\ PrologueCommits(project))
    /\ jobs' = [jobs EXCEPT ![j] = mark_running(@, clock)]
    /\ LET d == RunDispatch([runs[j] EXCEPT !.session = RunSession(j)], project, commit_ok)
       IN  /\ runs' = [runs EXCEPT ![j] = d.run]
           /\ project' = d.project
    /\ UNCHANGED svcVars
    /\ UNCHANGED <<reqs, scheduled, clock, raced, actions, risks, remote, synced>>

\* sync_jira_data, lines 263-353: the remote call (ok: whether it returns),
\* the pre-fetch of the project's rows and the loop over the issues.
JiraFetch(c, ok) ==
    /\ runs[c].pc = "jira"
    /\ IF ok
       THEN \E by_key \in ActionByJiraKey(actions) :
              runs' = [runs EXCEPT ![c] =
                         [@ EXCEPT !.jira.actions_count = Len(remote),
                                   !.fetched = remote,
                                   !.work = UpsertIssues(
                                       [rows |-> actions, dirty |-> {}, new |-> <<>>],
                                       remote, by_key),
                                   !.pc = "jira_commit"]]
       ELSE runs' = [runs EXCEPT ![c] =
                       AfterJira([@ EXCEPT !.jira.success = FALSE,
                                           !.jira.error = "Jira API error"])]
    /\ UNCHANGED svcVars
    /\ UNCHANGED <<jobs, reqs, scheduled, clock, raced, project, actions, risks,
                   remote, synced>>

\* A wrong sync_jira_data: after a failed commit the rows that could be
\* written stay written.
JiraCommit_no_rollback(c, ok) ==
    /\ runs[c].pc = "jira_commit"
    /\ actions' = CommitActions(actions, runs[c].work)
    /\ IF ok
       THEN /\ synced' = [valid |-> TRUE, issues |-> runs[c].fetched]
            /\ runs' = [runs EXCEPT ![c] =
                          AfterJira([@ EXCEPT
                             !.jira.message =
                                "Synced " \o ToString(runs[c].jira.actions_count) \o " actions",
                             !.work = NoWork, !.fetched = <<>>])]
       ELSE /\ UNCHANGED synced
            /\ runs' = [runs EXCEPT ![c] =
                          AfterJira([@ EXCEPT !.jira.success = FALSE,
                                              !.jira.error = "commit failed",
                                              !.work = NoWork, !.fetched = <<>>])]
    /\ UNCHANGED svcVars
    /\ UNCHANGED <<jobs, reqs, scheduled, clock, raced, project, risks, remote>>

\* sync_jira_data, lines 367-380: the commit of the pass (ok: whether it goes
\* through), or the rollback after it failed.
JiraCommit(c, ok) ==
    /\ runs[c].pc = "jira_commit"
    /\ IF ok
       THEN /\ actions' = CommitActions(actions, runs[c].work)
            /\ synced' = [valid |-> TRUE, issues |-> runs[c].fetched]
            /\ runs' = [runs EXCEPT ![c] =
                          AfterJira([@ EXCEPT
                             !.jira.message =
                                "Synced " \o ToString(runs[c].jira.actions_count) \o " actions",
                             !.work = NoWork, !.fetched = <<>>])]
       ELSE /\ UNCHANGED <<actions, synced>>
            /\ runs' = [runs EXCEPT ![c] =
                          AfterJira([@ EXCEPT !.jira.success = FALSE,
                                              !.jira.error = "commit failed",
                                              !.work = NoWork, !.fetched = <<>>])]
    /\ UNCHANGED svcVars
    /\ UNCHANGED <<jobs, reqs, scheduled, clock, raced, project, risks, remote>>

\* sync_precursive_data, lines 382-612: the lookups, the financials and the
\* risk step up to its last remote call (line 531, after which the commit
\* follows).  pp: the project the CRM returned to the lookup; fin: the
\* financials it returned.  When the risk step raises there is no commit:
\* the error is recorded, the session is not rolled back and the routine
\* returns to its caller, with the project changes of steps 1 and 2 still
\* pending in the session.
PrecSync(c, pp, fin) ==
    /\ runs[c].pc = "precursive"
    /\ LET lookup == PrecursiveLookup(project)
           got == lookup # "none" /\ pp.found
           by_url == lookup = "by_url" /\ got
           id == IF by_url THEN pp.id ELSE project.precursive_id
           fs == StageFinancials(fin)
           staged == [fs.staged EXCEPT
                        !.precursive_id = IF by_url THEN Some(pp.id) ELSE None]
           embedded == got /\ pp.risk_level # ""
           raises == embedded /\ map_risk_level_to_probability(pp.risk_level) = "raise"
           count == IF raises THEN 0 ELSE IF embedded THEN 1 ELSE Len(risks)
           risk_error == IF raises THEN "Risk sync failed: not a string" ELSE ""
           error == JoinErrors(fs.error, risk_error)
           res == [success |-> error = "", financials_updated |-> fs.updated,
                   risks_count |-> count,
                   message |-> IF fs.updated THEN "Synced financials from Precursive"
                               ELSE IF raises THEN ""
                               ELSE IF embedded THEN "Synced risks from Precursive"
                               ELSE IF risks # <<>>
                               THEN "Found " \o ToString(Len(risks)) \o " existing risks"
                               ELSE "",
                   error |-> error]
           job == runs[c].kind = PRECURSIVE
           seen == [financials |-> fin,
                    financial |-> fin # None /\ has_any_financial_data(Val(fin)),
                    risk |-> embedded,
                    bad_figures |-> fin # None /\ compute_total_budget_raises(Val(fin)),
                    bad_level |-> got /\ pp.risk_level = NotAString]
           resolved == IF lookup = "by_url"
                       THEN runs[c].resolved \cup {"precursive_url"} ELSE runs[c].resolved
       IN  /\ lookup = "none" => pp = NoPrecursiveProject
           /\ id = "" => fin = None
           /\ IF raises
              THEN /\ runs' = [runs EXCEPT ![c] =
                                 AfterPrecursive(
                                   [@ EXCEPT !.precursive = res,
                                             !.staged = IF job THEN staged ELSE NoStaged,
                                             !.resolved = resolved,
                                             !.remote_data = seen])]
                   /\ project' = IF job THEN project
                                 ELSE [Flush(project, staged) EXCEPT !.last_synced_at = clock]
              ELSE /\ \E work \in (IF embedded
                                   THEN sync_precursive_embedded_risk(risks, pp)
                                   ELSE {NoRiskWork}) :
                        runs' = [runs EXCEPT ![c] =
                                   [@ EXCEPT !.precursive = res,
                                             !.staged = staged,
                                             !.risk_work = work,
                                             !.resolved = resolved,
                                             !.remote_data = seen,
                                             !.pc = "precursive_commit"]]
                   /\ project' = project
    /\ UNCHANGED svcVars
    /\ UNCHANGED <<jobs, reqs, scheduled, clock, raced, actions, risks, remote, synced>>

\* sync_precursive_data, lines 614-624: the commit of the pass (commit_ok:
\* whether it goes through) and, in its caller, what follows the return.  A
\* failed commit is recorded and the session is not rolled back.
PrecCommit(c, commit_ok) ==
    /\ runs[c].pc = "precursive_commit"
    /\ LET r == runs[c]
           risk_error == IF commit_ok THEN "" ELSE "Risk sync failed: commit failed"
           error == JoinErrors(r.precursive.error, risk_error)
           job == r.kind = PRECURSIVE
       IN  /\ risks' = IF commit_ok THEN CommitRisk(risks, r.risk_work) ELSE risks
           /\ runs' = [runs EXCEPT ![c] =
                         AfterPrecursive(
                           [@ EXCEPT !.precursive.error = error,
                                     !.precursive.success = error = "",
                                     !.broken = ~commit_ok,
                                     !.staged = NoStaged,
                                     !.risk_work = NoRiskWork])]
           /\ project' = IF ~commit_ok THEN project
                         ELSE IF job THEN Flush(project, r.staged)
                         ELSE [Flush(project, r.staged) EXCEPT !.last_synced_at = clock]
    /\ UNCHANGED svcVars
    /\ UNCHANGED <<jobs, reqs, scheduled, clock, raced, actions, remote, synced>>

\* run_sync_job, lines 101-121: the clients are closed (close_ok: whether that
\* goes through; not reached when the project was not found), then the job is
\* marked failed or succeeded.  The commit of the mark raises on a session
\* whose transaction failed and was not rolled back; otherwise it commits
\* whatever else is pending in the session.
RunFinish(j, close_ok) ==
    /\ j \in JobIds
    /\ runs[j].pc \in {"close", "mark"}
    /\ close_ok \/ runs[j].pc = "close"
    /\ LET r == runs[j]
           exception == IF close_ok THEN r.exception ELSE "close failed"
           error_message == IF close_ok THEN r.error_message ELSE "close failed"
       IN  IF r.broken
           THEN /\ runs' = [runs EXCEPT ![j] = [r EXCEPT !.pc = "raised",
                                                         !.exception = exception,
                                                         !.error_message = error_message]]
                /\ UNCHANGED <<jobs, clock, project>>
           ELSE /\ runs' = [runs EXCEPT ![j] = [r EXCEPT !.pc = "returned",
                                                         !.exception = exception,
                                                         !.error_message = error_message,
                                                         !.staged = NoStaged]]
                /\ project' = Flush(project, r.staged)
                /\ jobs' = [jobs EXCEPT ![j] =
                              IF error_message # ""
                              THEN mark_failed(@, error_message, r.items_synced, clock)
                              ELSE mark_succeeded(@, r.items_synced, clock)]
                /\ clock' = clock + 1
    /\ UNCHANGED svcVars
    /\ UNCHANGED <<reqs, scheduled, raced, actions, risks, remote, synced>>

\* -------------------------------------------------------- synchronous sync

\* trigger_sync, lines 225-232, and sync_project up to its first remote call.
TriggerStart(t, commit_ok) ==
    /\ t \in TrigIds
    /\ runs[t].pc = "idle"
    /\ clock <= MaxSyncs
    /\ project.exists
    /\ commit_ok \/ PrologueCommits(project)
    /\ LET d == SyncProjectStart([Idle EXCEPT !.kind = "trigger",
                                                 !.session = RequestSession(t)],
                                    project, commit_ok)
       IN  /\ runs' = [runs EXCEPT ![t] = d.run]
           /\ project' = d.project
    /\ UNCHANGED svcVars
    /\ UNCHANGED <<jobs, reqs, scheduled, clock, raced, actions, risks, remote, synced>>

\* trigger_sync, lines 233-240: the result is returned and the clients closed.
TriggerFinish(t) ==
    /\ t \in TrigIds
    /\ runs[t].pc = "close"
    /\ runs' = [runs EXCEPT ![t] = Idle]
    /\ clock' = clock + 1
    /\ UNCHANGED svcVars
    /\ UNCHANGED <<jobs, reqs, scheduled, raced, project, actions, risks, remote, synced>>

\* ------------------------------------------------------------ environment

Executing ==
    {c \in Ctx : runs[c].pc \in {"jira", "jira_commit", "precursive",
                                 "precursive_commit", "close", "mark"}}

\* The project row is deleted (project CRUD), between executions.
DeleteProject ==
    /\ project.exists
    /\ Executing = {}
    /\ project' = [project EXCEPT !.exists = FALSE]
    /\ UNCHANGED svcVars
    /\ UNCHANGED <<jobs, reqs, scheduled, runs, clock, raced, actions, risks,
                   remote, synced>>

\* The tracker's issues change; the change shows at the next remote call.
RemoteChange(issues) ==
    /\ \E c \in Ctx : runs[c].pc = "jira"
    /\ remote # issues
    /\ remote' = issues
    /\ UNCHANGED svcVars
    /\ UNCHANGED <<jobs, reqs, scheduled, runs, clock, raced, project, actions,
                   risks, synced>>

\* ------------------------------------------------------------------- Next

Next ==
    \/ \E q \in Reqs, k \in SyncJobType : EnqueueCheck(q, k)
    \/ \E q \in Reqs : EnqueueCreate(q)
    \/ \E j \in JobIds, ok \in BOOLEAN : RunStart(j, ok)
    \/ \E c \in Ctx, ok \in BOOLEAN : JiraFetch(c, ok)
    \/ \E c \in Ctx, ok \in BOOLEAN : JiraCommit(c, ok)
    \/ \E c \in Ctx, pp \in PrecursiveProjects, fin \in JobFinancials : PrecSync(c, pp, fin)
    \/ \E c \in Ctx, ok \in BOOLEAN : PrecCommit(c, ok)
    \/ \E j \in JobIds, ok \in BOOLEAN : RunFinish(j, ok)
    \/ DeleteProject

Spec == Init /\ [][Next]_vars

\* The orchestrator called synchronously, against a tracker whose issues change.
NextSync ==
    \/ \E t \in TrigIds, ok \in BOOLEAN : TriggerStart(t, ok)
    \/ \E c \in Ctx, ok \in BOOLEAN : JiraFetch(c, ok)
    \/ \E c \in Ctx, ok \in BOOLEAN : JiraCommit(c, ok)
    \/ \E c \in Ctx, pp \in PrecursiveProjects, fin \in NoFinancials : PrecSync(c, pp, fin)
    \/ \E c \in Ctx, ok \in BOOLEAN : PrecCommit(c, ok)
    \/ \E t \in TrigIds : TriggerFinish(t)
    \/ \E issues \in RemoteLists : RemoteChange(issues)

SpecSync == Init /\ [][NextSync]_vars

\* Synchronous syncs of projects in every state of their two links, against
\* a CRM that answers with or without financial and risk data.
LinkProjects == {ProjectRow(l, d) : l \in ProjectLinks, d \in PrecursiveLinks}

InitLinks == InitWith(LinkProjects)

NextLinks ==
    \/ \E t \in TrigIds, ok \in BOOLEAN : TriggerStart(t, ok)
    \/ \E c \in Ctx, ok \in BOOLEAN : JiraFetch(c, ok)
    \/ \E c \in Ctx, ok \in BOOLEAN : JiraCommit(c, ok)
    \/ \E c \in Ctx, pp \in PrecursiveProjects, fin \in LinkFinancials : PrecSync(c, pp, fin)
    \/ \E c \in Ctx, ok \in BOOLEAN : PrecCommit(c, ok)
    \/ \E t \in TrigIds : TriggerFinish(t)

SpecLinks == InitLinks /\ [][NextLinks]_vars

\* What the HTTP API offers together: the two enqueue endpoints (the router
\* enqueues jobs of kind jira and of kind precursive only) and the
\* synchronous sync, on one project.
EndpointJobTypes == {JIRA, PRECURSIVE}

\* A project with both links resolved.
InitApi == InitWith({ProjectRow(<<"PK", NoUrl>>, <<"P1", "">>)})

\* One client of the enqueue endpoints (so that no two enqueue requests
\* overlap), next to the client of the synchronous sync.
ApiReqs == {1}

NextApi ==
    \/ \E q \in ApiReqs, k \in EndpointJobTypes : EnqueueCheck(q, k)
    \/ \E q \in ApiReqs : EnqueueCreate(q)
    \/ \E j \in JobIds : RunStart(j, TRUE)
    \/ \E t \in TrigIds : TriggerStart(t, TRUE)
    \/ \E c \in Ctx, ok \in BOOLEAN : JiraFetch(c, ok)
    \/ \E c \in Ctx, ok \in BOOLEAN : JiraCommit(c, ok)
    \/ \E c \in Ctx, pp \in PrecursiveProjects, fin \in NoFinancials : PrecSync(c, pp, fin)
    \/ \E c \in Ctx, ok \in BOOLEAN : PrecCommit(c, ok)
    \/ \E j \in JobIds, ok \in BOOLEAN : RunFinish(j, ok)
    \/ \E t \in TrigIds : TriggerFinish(t)

SpecApi == InitApi /\ [][NextApi]_vars

\* Issue-sync jobs enqueued one after another through sync_jira_only, against
\* a tracker whose issues change between the passes.
NextIncr ==
    \/ \E q \in ApiReqs : EnqueueCheck(q, JIRA)
    \/ \E q \in ApiReqs : EnqueueCreate(q)
    \/ \E j \in JobIds : RunStart(j, TRUE)
    \/ \E j \in JobIds, ok \in BOOLEAN : JiraFetch(j, ok)
    \/ \E j \in JobIds, ok \in BOOLEAN : JiraCommit(j, ok)
    \/ \E j \in JobIds, ok \in BOOLEAN : RunFinish(j, ok)
    \/ \E issues \in RemoteLists : RemoteChange(issues)

SpecIncr == InitApi /\ [][NextIncr]_vars

\* --------------------------------------------------------- pure routines

\* The financial records the CRM can return: each figure absent, zero or set.
Financials ==
    [remaining_budget : {None, Some(0), Some(200)},
     total_fte_days : {None, Some(0), Some(10)},
     fte_day_price : {None, Some(0), Some(500)},
     overrun_investment : {None},
     pm_budget : {None, Some(0), Some(2)},
     sa_budget : {None, Some(3)},
     de_budget : {None},
     ds_budget : {None}]

\* Completion times in minutes: two minutes and ten minutes past a midnight,
\* and five minutes past another.
Stamps == {1442, 1450, 2885}

\* Ledger rows as create_job and the mark_* routines leave them.
LedgerRows ==
    {SyncJob(k) : k \in {JIRA, FULL}}
    \cup {mark_running(SyncJob(k), 1) : k \in {JIRA, FULL}}
    \cup {mark_succeeded(mark_running(SyncJob(k), 1), 0, t) : k \in {JIRA, FULL}, t \in Stamps}
    \cup {mark_failed(mark_running(SyncJob(k), 1), "Jira API error", 0, 1450) : k \in {JIRA, FULL}}

Ledgers == UNION {[1..n -> LedgerRows] : n \in 0..MaxLedger}

ApplyUpdatedSince(ledger, force_full) ==
    /\ call' = [fn |-> "updated_since", ledger |-> ledger, force_full |-> force_full,
                result |-> updated_since(ledger, force_full)]
    /\ UNCHANGED <<syncVars, clock, risk, outcome>>

ApplyBudget(f) ==
    /\ call' = [fn |-> "budget", f |-> f, any |-> has_any_financial_data(f),
                total |-> compute_total_budget(f), spent |-> compute_spent_budget(f)]
    /\ UNCHANGED <<syncVars, clock, risk, outcome>>

ApplyQuery(st, first, second, auth_ok, reauth_ok) ==
    /\ call' = [fn |-> "query", st |-> st, first |-> first, second |-> second,
                auth_ok |-> auth_ok, reauth_ok |-> reauth_ok,
                result |-> query(st, first, second, auth_ok, reauth_ok)]
    /\ UNCHANGED <<syncVars, clock, risk, outcome>>

InitPure ==
    /\ Init
    /\ project.jira_project_key = "PK"

NextPure ==
    \/ \E ledger \in Ledgers, force_full \in BOOLEAN : ApplyUpdatedSince(ledger, force_full)
    \/ \E f \in Financials : ApplyBudget(f)
    \/ \E st \in ClientStates, first \in StatusCodes, second \in StatusCodes,
          auth_ok \in BOOLEAN, reauth_ok \in BOOLEAN :
          ApplyQuery(st, first, second, auth_ok, reauth_ok)

SpecPure == InitPure /\ [][NextPure]_vars

\* ============================================================ RiskService

MaxRiskCalls == 3

\* UserRole.
COGNITER == "Cogniter"
CLIENT_FINANCIALS == "Client + Financials"
CLIENT == "Client"

\* The callers: two Cogniters and a client user.  has_access: the client
\* is assigned to the risk's project.
Users ==
    {[id |-> 1, role |-> COGNITER, has_access |-> FALSE],
     [id |-> 2, role |-> COGNITER, has_access |-> FALSE],
     [id |-> 3, role |-> CLIENT, has_access |-> TRUE],
     [id |-> 4, role |-> CLIENT_FINANCIALS, has_access |-> FALSE]}

\* The texts a caller sends, and str.strip() on them.
Texts == {"", "  ", "accepted", " accepted ", "recurred"}

strip(text) ==
    CASE text = "  " -> ""
      [] text = " accepted " -> "accepted"
      [] OTHER -> text

is_internal_user(user) == user.role = COGNITER
can_resolve_risk(user) == user.role = COGNITER
can_reopen_risk(user) == user.role = COGNITER

\* _check_project_access: the error it raises, "" when it returns.
check_project_access(is_published, user) ==
    IF is_internal_user(user) THEN ""
    ELSE IF ~is_published THEN "AuthorizationError"
    ELSE IF ~user.has_access THEN "AuthorizationError"
    ELSE ""

\* The checks of resolve_risk in their order: the error raised, "" for none.
resolve_risk_error(proj, is_published, status, decision_record, user) ==
    IF ~proj.exists THEN "ResourceNotFoundError"
    ELSE IF check_project_access(is_published, user) # ""
         THEN check_project_access(is_published, user)
    ELSE IF ~can_resolve_risk(user) THEN "AuthorizationError"
    ELSE IF status \notin {CLOSED, MITIGATED} THEN "ValidationError"
    ELSE IF decision_record = "" \/ strip(decision_record) = "" THEN "ValidationError"
    ELSE ""

\* A wrong resolve_risk: the fields of an earlier reopening are kept.
resolve_risk_keeps_reopen(r, status, decision_record, user, now) ==
    [r EXCEPT !.status = status,
              !.decision_record = Some(strip(decision_record)),
              !.resolved_at = Some(now),
              !.resolved_by_id = Some(user.id)]

\* The assignments of resolve_risk once the checks have passed.
resolve_risk(r, status, decision_record, user, now) ==
    [r EXCEPT !.status = status,
              !.decision_record = Some(strip(decision_record)),
              !.resolved_at = Some(now),
              !.resolved_by_id = Some(user.id),
              !.reopen_reason = None,
              !.reopened_at = None,
              !.reopened_by_id = None]

\* The checks of reopen_risk in their order.
reopen_risk_error(proj, is_published, r, reason, user) ==
    IF ~proj.exists THEN "ResourceNotFoundError"
    ELSE IF check_project_access(is_published, user) # ""
         THEN check_project_access(is_published, user)
    ELSE IF ~can_reopen_risk(user) THEN "AuthorizationError"
    ELSE IF r.status = OPEN THEN "ValidationError"
    ELSE IF reason = "" \/ strip(reason) = "" THEN "ValidationError"
    ELSE ""

\* The assignments of reopen_risk once the checks have passed.
reopen_risk(r, reason, user, now) ==
    [r EXCEPT !.status = OPEN,
              !.reopen_reason = Some(strip(reason)),
              !.reopened_at = Some(now),
              !.reopened_by_id = Some(user.id)]

\* RiskService.resolve_risk called on the risk.
ResolveRisk(user, status, decision_record, is_published) ==
    /\ clock <= MaxRiskCalls
    /\ LET error == resolve_risk_error(project, is_published, status, decision_record, user)
       IN  /\ risk' = IF error = ""
                      THEN resolve_risk(risk, status, decision_record, user, clock)
                      ELSE risk
           /\ outcome' = [op |-> "resolve", user |-> user, status |-> status,
                          text |-> decision_record, at |-> clock, error |-> error]
    /\ clock' = clock + 1
    /\ UNCHANGED <<syncVars, call>>

\* RiskService.reopen_risk called on the risk.
ReopenRisk(user, reason, is_published) ==
    /\ clock <= MaxRiskCalls
    /\ LET error == reopen_risk_error(project, is_published, risk, reason, user)
       IN  /\ risk' = IF error = ""
                      THEN reopen_risk(risk, reason, user, clock)
                      ELSE risk
           /\ outcome' = [op |-> "reopen", user |-> user, status |-> OPEN,
                          text |-> reason, at |-> clock, error |-> error]
    /\ clock' = clock + 1
    /\ UNCHANGED <<syncVars, call>>

NextRisk ==
    \/ \E user \in Users, status \in RiskStatus, decision_record \in Texts,
          is_published \in BOOLEAN :
          ResolveRisk(user, status, decision_record, is_published)
    \/ \E user \in Users, reason \in Texts, is_published \in BOOLEAN :
          ReopenRisk(user, reason, is_published)

SpecRisk == InitPure /\ [][NextRisk]_vars

\* ------------------------------------------------- JiraClient._search_issues

\* The page size Jira is asked for at most (line 82).
JIRA_PAGE_CAP == 100

Min(a, b) == IF a < b THEN a ELSE b

\* The max_results the callers pass: none, fewer than a page, a page, more.
MaxResultsValues == {0, 1, 2, 3, 99, 100, 101, 199, 200, 201, 250, 300, 400, 500}

\* The numbers of issues a page can come back with when page_size were asked.
PageSizes(page_size) ==
    {0, 1, page_size \div 2, page_size - 1, page_size} \cap 0..page_size

\* A wrong loop condition: one more page is asked when the bound is just met.
ContinueSearch_inclusive(issues, max_results) == issues <= max_results

\* Line 86: while len(issues) < max_results.
ContinueSearch(issues, max_results) == issues < max_results

\* _search_issues up to its first request (lines 77-86).  issues: the number
\* of issues collected; requests: the startAt of each GET sent; pages: the
\* number of issues each answer carried.
SearchStart(max_results) ==
    /\ IF call.fn = "search" THEN call.pc # "loop" ELSE TRUE
    /\ call' = [fn |-> "search", max_results |-> max_results,
                page_size |-> Min(max_results, JIRA_PAGE_CAP),
                issues |-> 0, start_at |-> 0, requests |-> <<>>, pages |-> <<>>,
                pc |-> IF max_results <= 0 THEN "done"
                       ELSE IF ContinueSearch(0, max_results) THEN "loop" ELSE "done",
                result |-> 0]
    /\ UNCHANGED <<syncVars, clock, risk, outcome>>

\* One turn of the loop (lines 87-117): the GET at start_at, answered with
\* status 200 and received issues, then the test of the loop.
SearchPage(received) ==
    /\ call.fn = "search" /\ call.pc = "loop"
    /\ received \in PageSizes(call.page_size)
    /\ LET issues == call.issues + received
           more == received >= call.page_size /\ ContinueSearch(issues, call.max_results)
       IN  call' = [call EXCEPT
                      !.issues = issues,
                      !.requests = Append(@, call.start_at),
                      !.pages = Append(@, received),
                      !.start_at = IF received < call.page_size THEN @ ELSE @ + received,
                      !.pc = IF more THEN "loop" ELSE "done",
                      !.result = IF more THEN 0 ELSE Min(issues, call.max_results)]
    /\ UNCHANGED <<syncVars, clock, risk, outcome>>

\* One turn of the loop answered with another status: IntegrationError.
SearchFail ==
    /\ call.fn = "search" /\ call.pc = "loop"
    /\ call' = [call EXCEPT !.requests = Append(@, call.start_at), !.pc = "raised"]
    /\ UNCHANGED <<syncVars, clock, risk, outcome>>

NextSearch ==
    \/ \E max_results \in MaxResultsValues : SearchStart(max_results)
    \/ \E received \in 0..JIRA_PAGE_CAP : SearchPage(received)
    \/ SearchFail

SpecSearch == InitPure /\ [][NextSearch]_vars

\* ================================================================= claims

Active == {QUEUED, RUNNING}
Terminal == {SUCCEEDED, FAILED}

Times(seq, x) == Cardinality({i \in DOMAIN seq : seq[i] = x})

\* C1: an enqueue call whose query runs while a job of its (project, kind) is
\* queued or running returns that job with deduplicated = true, adds no
\* ledger row and schedules nothing; a call that creates a job returns it with
\* deduplicated = false and schedules exactly one run_sync_job for it, and
\* nothing else schedules a run.
C1_Dedup ==
    [][/\ \A q \in Reqs :
            /\ ( /\ reqs[q].pc \in {"idle", "done"}
                 /\ reqs'[q] # reqs[q]
                 /\ \E j \in DOMAIN jobs : /\ jobs[j].job_type = reqs'[q].kind
                                           /\ jobs[j].status \in Active )
               => /\ reqs'[q].pc = "done"
                  /\ reqs'[q].deduplicated
                  /\ reqs'[q].job \in DOMAIN jobs
                  /\ jobs[reqs'[q].job].job_type = reqs'[q].kind
                  /\ jobs[reqs'[q].job].status \in Active
                  /\ jobs' = jobs
                  /\ scheduled' = scheduled
            /\ (reqs[q].pc = "create" /\ reqs'[q].pc = "done")
               => /\ ~reqs'[q].deduplicated
                  /\ Len(jobs') = Len(jobs) + 1
                  /\ reqs'[q].job = Len(jobs')
                  /\ jobs'[reqs'[q].job].job_type = reqs'[q].kind
                  /\ Times(scheduled, reqs'[q].job) = 0
                  /\ Times(scheduled', reqs'[q].job) = 1
       /\ (scheduled' # scheduled)
            => \E q \in Reqs : reqs[q].pc = "create" /\ reqs'[q].pc = "done"
      ]_vars

\* A request answered with an active job of its kind and deduplicated = true.
C1_Witness ==
    \E q \in Reqs : /\ reqs[q].pc = "done"
                    /\ reqs[q].deduplicated
                    /\ jobs[reqs[q].job].status = RUNNING
                    /\ Times(scheduled, reqs[q].job) = 1

\* C2: as long as no two enqueue requests of a (project, kind) overlapped,
\* at most one job of that (project, kind) is queued or running.
C2_AtMostOneActive ==
    \A k \in SyncJobType :
        k \notin raced =>
            Cardinality({j \in DOMAIN jobs : /\ jobs[j].job_type = k
                                             /\ jobs[j].status \in Active}) <= 1

\* Two jobs of one kind, created by requests that did not overlap, the second
\* active after the first ended.
C2_Witness ==
    \E k \in SyncJobType, i, j \in DOMAIN jobs :
        /\ k \notin raced
        /\ jobs[i].job_type = k /\ jobs[j].job_type = k
        /\ jobs[i].status \in Terminal
        /\ jobs[j].status \in Active

\* C3, as stated: a request that commits its job after a rival request of the
\* same (project, kind) committed one in between its query and its commit gets
\* deduplicated = false and a distinct job, both jobs are scheduled, and the
\* two jobs are active at once.
C3_RaceBothActive ==
    [][\A q \in Reqs :
          (reqs[q].pc = "create" /\ reqs'[q].pc = "done" /\ reqs[q].rival # 0)
          => /\ ~reqs'[q].deduplicated
             /\ reqs'[q].job # reqs[q].rival
             /\ jobs'[reqs[q].rival].job_type = jobs'[reqs'[q].job].job_type
             /\ Times(scheduled', reqs'[q].job) = 1
             /\ Times(scheduled', reqs[q].rival) = 1
             /\ jobs'[reqs'[q].job].status \in Active
             /\ jobs'[reqs[q].rival].status \in Active
      ]_vars

\* C3, amended: the two jobs are active at once when the rival's job has not
\* ended before the second commit.
C3_Race ==
    [][\A q \in Reqs :
          (reqs[q].pc = "create" /\ reqs'[q].pc = "done" /\ reqs[q].rival # 0)
          => /\ ~reqs'[q].deduplicated
             /\ reqs'[q].job # reqs[q].rival
             /\ jobs'[reqs[q].rival].job_type = jobs'[reqs'[q].job].job_type
             /\ Times(scheduled', reqs'[q].job) = 1
             /\ Times(scheduled', reqs[q].rival) = 1
             /\ jobs'[reqs'[q].job].status \in Active
             /\ (jobs[reqs[q].rival].status \in Active
                   => jobs'[reqs[q].rival].status \in Active)
      ]_vars

\* Both requests of a race answered, their two jobs queued or running.
C3_Witness ==
    \E q \in Reqs :
        /\ reqs[q].pc = "done" /\ reqs[q].rival # 0 /\ ~reqs[q].deduplicated
        /\ jobs[reqs[q].job].status \in Active
        /\ jobs[reqs[q].rival].status \in Active
        /\ jobs[reqs[q].job].job_type = jobs[reqs[q].rival].job_type

\* C4: a job's status only moves queued -> running -> succeeded or failed;
\* no row is removed and no row changes its kind.
C4_Monotonic ==
    [][/\ Len(jobs') >= Len(jobs)
       /\ \A j \in DOMAIN jobs :
            /\ jobs'[j].job_type = jobs[j].job_type
            /\ \/ jobs'[j].status = jobs[j].status
               \/ jobs[j].status = QUEUED /\ jobs'[j].status = RUNNING
               \/ jobs[j].status = RUNNING /\ jobs'[j].status \in Terminal
      ]_vars

\* One job went through to succeeded, another to failed.
C4_Witness ==
    \E i, j \in DOMAIN jobs : jobs[i].status = SUCCEEDED /\ jobs[j].status = FAILED

\* C5: completed_at is set if and only if the status is succeeded or failed.
C5_CompletedIffTerminal ==
    \A j \in DOMAIN jobs : (jobs[j].completed_at # 0) <=> (jobs[j].status \in Terminal)

\* A failed job with its completion time beside a running job without one.
C5_Witness ==
    \E i, j \in DOMAIN jobs :
        /\ jobs[i].status = FAILED /\ jobs[i].completed_at # 0
        /\ jobs[j].status = RUNNING /\ jobs[j].completed_at = 0

\* The executions of background jobs that have ended, by return or by an
\* exception leaving run_sync_job.
Ended == {j \in DOMAIN jobs : runs[j].pc \in {"returned", "raised"}}

\* The error the routine of a job's kind reported: the exception it raised,
\* else the error string of its sub-result (for kind full the two areas'
\* errors combined).
ReportedError(j) ==
    IF runs[j].exception # "" THEN runs[j].exception
    ELSE IF runs[j].kind = JIRA THEN runs[j].jira.error
    ELSE IF runs[j].kind = PRECURSIVE THEN runs[j].precursive.error
    ELSE IF runs[j].jira.error # "" /\ runs[j].precursive.error # ""
    THEN "Jira: " \o runs[j].jira.error \o "; Precursive: " \o runs[j].precursive.error
    ELSE IF runs[j].jira.error # "" THEN "Jira: " \o runs[j].jira.error
    ELSE IF runs[j].precursive.error # "" THEN "Precursive: " \o runs[j].precursive.error
    ELSE ""

\* C6: when run_sync_job has ended, the job is failed with the reported error
\* text exactly when the routine returned a sub-result with a non-empty error
\* or raised (project not found included), and succeeded in every other case;
\* for kind full the error is the combination of the two areas' errors.
C6_FailedIffError ==
    \A j \in Ended :
        IF ReportedError(j) # ""
        THEN jobs[j].status = FAILED /\ jobs[j].error = ReportedError(j)
        ELSE jobs[j].status = SUCCEEDED /\ jobs[j].error = ""

\* C7: run_sync_job never ends by propagating an exception, and the job of
\* every execution that has ended is succeeded or failed.
C7_AlwaysTerminal ==
    \A j \in Ended : runs[j].pc = "returned" /\ jobs[j].status \in Terminal

\* C8: after any sequence of issue-sync passes over any fetched lists, a list
\* naming one key twice included, no two local ActionItems of the project
\* have the same jira_key.
C8_UniqueJiraKey ==
    \A i, j \in DOMAIN actions :
        (i # j /\ actions[i].jira_key # "") => actions[i].jira_key # actions[j].jira_key

\* An issue pass commits without error (the step from the loop to the return
\* of sync_jira_data with an empty error).
PassCommits(c) ==
    /\ runs[c].pc = "jira_commit"
    /\ runs'[c].pc # "jira_commit"
    /\ runs'[c].jira.error = ""

\* C9: a pass over the list the last committed pass fetched, unchanged, leaves
\* the local ActionItems and their fields exactly as they were: it inserts
\* nothing and changes no field.
C9_Idempotent ==
    [][\A c \in Ctx :
          (PassCommits(c) /\ synced.valid /\ runs[c].fetched = synced.issues)
          => actions' = actions
      ]_vars

\* The issues of a fetched list that the loop processes without an error and
\* that the list names once: a status of the mapped type, a due date that is
\* absent or parses.
Plain(fetched) ==
    {n \in DOMAIN fetched :
        /\ fetched[n].status # NotAString
        /\ fetched[n].due_date \in ValidDates \cup {""}
        /\ \A m \in DOMAIN fetched : fetched[m].key = fetched[n].key => m = n}

\* C10: after a pass that commits, for every fetched issue a local ActionItem
\* with its key has title, status, assignee, priority and due date equal to the
\* values mapped from the issue, whatever they were before: an emptied summary
\* gives the title of an issue without summary, a removed due date no due date.
C10_LastWriteWins ==
    [][\A c \in Ctx :
          PassCommits(c)
          => \A n \in Plain(runs[c].fetched) :
               LET issue == runs[c].fetched[n]
               IN  \E i \in DOMAIN actions' :
                     /\ actions'[i].jira_key = issue.key
                     /\ actions'[i].title \in {issue.summary, "Untitled"} \ {""}
                     /\ actions'[i].status = map_jira_status(issue.status)
                     /\ actions'[i].assignee = issue.assignee
                     /\ actions'[i].priority = map_jira_priority(issue.priority)
                     /\ actions'[i].due_date =
                           (IF issue.due_date = "" THEN ""
                            ELSE issue.due_date \o "T00:00:00")
      ]_vars

\* The completion times of the succeeded issue-sync jobs of a ledger.
SucceededJiraTimes(ledger) ==
    {ledger[j].completed_at : j \in {i \in DOMAIN ledger :
        ledger[i].job_type = JIRA /\ ledger[i].status = SUCCEEDED}}

KnownRoles(f) == {o \in {f.pm_budget, f.sa_budget, f.de_budget, f.ds_budget} : o # None}

Malformed(fetched) ==
    {n \in DOMAIN fetched :
        \/ fetched[n].status = NotAString
        \/ fetched[n].due_date \notin ValidDates \cup {""}}

\* The commit of an issue pass goes through.
CommitGoesThrough(c) ==
    /\ runs[c].pc = "jira_commit"
    /\ runs'[c].pc # "jira_commit"
    /\ runs'[c].jira.error # "commit failed"

\* C12: when exactly one issue of a fetched batch cannot be processed, the
\* pass still commits a row for every other issue of the batch, with the
\* values of the last entry of its key, and reports success with no error.
C12_PartialFailure ==
    [][\A c \in Ctx :
          (CommitGoesThrough(c) /\ Cardinality(Malformed(runs[c].fetched)) = 1)
          => /\ runs'[c].jira.success
             /\ runs'[c].jira.error = ""
             /\ \A n \in DOMAIN runs[c].fetched \ Malformed(runs[c].fetched) :
                  LET issue == runs[c].fetched[n]
                      last == \A m \in DOMAIN runs[c].fetched :
                                 (m > n => runs[c].fetched[m].key # issue.key)
                  IN  \E i \in DOMAIN actions' :
                        /\ actions'[i].jira_key = issue.key
                        /\ last => /\ actions'[i].status = map_jira_status(issue.status)
                                   /\ actions'[i].assignee = issue.assignee
                                   /\ actions'[i].priority = map_jira_priority(issue.priority)
      ]_vars

\* A committed pass over two issues, one of them malformed, the other stored.
C12_Witness ==
    /\ synced.valid
    /\ Len(synced.issues) = 2
    /\ Cardinality(Malformed(synced.issues)) = 1
    /\ \E n \in DOMAIN synced.issues \ Malformed(synced.issues) :
         \E i \in DOMAIN actions : actions[i].jira_key = synced.issues[n].key
    /\ \E c \in Ctx : runs[c].pc = "precursive" /\ runs[c].jira.success

\* The executions of sync_project: synchronous syncs and jobs of kind full.
SyncProjects == {c \in Ctx : runs[c].kind \in {"trigger", FULL}}

\* The delivery stage of c ends with this step.
InDelivery(pc) == pc \in {"precursive", "precursive_commit"}
DeliveryEnds(c) == InDelivery(runs[c].pc) /\ ~InDelivery(runs'[c].pc)

\* C13: sync_project raises nothing while the project exists; the issue stage,
\* failed or not, is followed by the delivery stage; the result returned has,
\* per area, a success flag that is false whenever the area's error is set.
C13_StructuredResult ==
    [][\A c \in SyncProjects :
          /\ runs'[c].kind = runs[c].kind =>
               /\ (project.exists
                   /\ runs[c].pc \in {"jira", "jira_commit", "precursive", "precursive_commit"})
                     => runs'[c].exception = ""
               /\ (runs[c].pc \in {"jira", "jira_commit"} /\ runs'[c].pc # runs[c].pc)
                     => runs'[c].pc \in {"jira_commit", "precursive"}
               /\ (DeliveryEnds(c) /\ runs'[c].pc = "close")
                     => /\ runs'[c].jira.error # "" => ~runs'[c].jira.success
                        /\ runs'[c].precursive.success <=> runs'[c].precursive.error = ""
                        /\ runs'[c].jira = runs[c].jira
      ]_vars

\* A sync whose issue stage failed and whose delivery stage succeeded.
C13_Witness ==
    \E c \in SyncProjects :
        /\ runs[c].pc = "close"
        /\ runs[c].jira.error # "" /\ ~runs[c].jira.success
        /\ runs[c].precursive.success /\ runs[c].precursive.error = ""

\* C19: the ActionItem table changes only by the commit of one pass, which
\* makes all of the pass's updates and inserts visible in one step; until
\* then a reader sees none of them.
C19_AtomicBatch ==
    [][actions' # actions =>
         \E c \in Ctx :
            /\ runs[c].pc = "jira_commit"
            /\ Len(actions') = Len(actions) + Len(runs[c].work.new)
            /\ \A i \in DOMAIN actions :
                 actions'[i] = IF i \in runs[c].work.dirty
                               THEN runs[c].work.rows[i] ELSE actions[i]
            /\ \A k \in DOMAIN runs[c].work.new :
                 actions'[Len(actions) + k] = runs[c].work.new[k]
      ]_vars

\* A pass about to commit an update and an insert, neither visible yet.
C19_Witness ==
    \E c \in Ctx :
        /\ runs[c].pc = "jira_commit"
        /\ runs[c].work.new # <<>>
        /\ \E i \in runs[c].work.dirty : actions[i] # runs[c].work.rows[i]
        /\ Len(runs[c].work.rows) = Len(actions)

\* C18: resolve_risk succeeds exactly for a Cogniter, a target status of
\* Closed or Mitigated and a non-blank decision record, and then sets status,
\* decision record, resolved_at and resolved_by and clears the reopen fields;
\* reopen_risk succeeds exactly for a Cogniter, a risk that is not Open and a
\* non-blank reason, and then sets status Open, the reason, reopened_at and
\* reopened_by and keeps decision record and resolved_*; every rejected call
\* reports an error and leaves the risk unchanged.
C18_Lifecycle ==
    [][outcome' # outcome =>
         LET o == outcome'
             blank == o.text \in {"", "  "}
         IN  /\ o.op = "resolve" =>
                  IF o.user.role = COGNITER /\ o.status \in {CLOSED, MITIGATED} /\ ~blank
                  THEN /\ o.error = ""
                       /\ risk'.status = o.status
                       /\ risk'.decision_record = Some(strip(o.text))
                       /\ risk'.resolved_at = Some(o.at)
                       /\ risk'.resolved_by_id = Some(o.user.id)
                       /\ risk'.reopen_reason = None
                       /\ risk'.reopened_at = None
                       /\ risk'.reopened_by_id = None
                  ELSE o.error # "" /\ risk' = risk
             /\ o.op = "reopen" =>
                  IF o.user.role = COGNITER /\ risk.status # OPEN /\ ~blank
                  THEN /\ o.error = ""
                       /\ risk'.status = OPEN
                       /\ risk'.reopen_reason = Some(strip(o.text))
                       /\ risk'.reopened_at = Some(o.at)
                       /\ risk'.reopened_by_id = Some(o.user.id)
                       /\ risk'.decision_record = risk.decision_record
                       /\ risk'.resolved_at = risk.resolved_at
                       /\ risk'.resolved_by_id = risk.resolved_by_id
                  ELSE o.error # "" /\ risk' = risk
      ]_vars

\* A resolved risk that was reopened: Open again, with the reason of the
\* reopening next to the decision of the resolution.
C18_Witness ==
    /\ outcome.op = "reopen" /\ outcome.error = ""
    /\ risk.status = OPEN
    /\ risk.reopen_reason = Some("recurred")
    /\ risk.decision_record = Some("accepted")
    /\ risk.resolved_by_id # risk.reopened_by_id

\* C20: the step that sets a running job to succeeded or failed commits
\* nothing else: the project row, the action items and the risks were
\* committed before it and are the same after it.
C20_CommitOrder ==
    [][\A j \in DOMAIN jobs :
          (jobs[j].status = RUNNING /\ jobs'[j].status \in Terminal)
          => /\ project' = project
             /\ actions' = actions
             /\ risks' = risks
      ]_vars

C14_StableIds ==
    [][/\ project.jira_project_key # ""
            => project'.jira_project_key = project.jira_project_key
       /\ project.precursive_id # ""
            => project'.precursive_id = project.precursive_id
       /\ \A c \in Ctx :
            /\ (/\ project.jira_project_key # ""
                /\ runs[c].pc \in {"idle", "scheduled"}
                /\ runs'[c].pc \notin {"idle", "scheduled"})
                 => "jira_url" \notin runs'[c].resolved
            /\ (/\ project.precursive_id # ""
                /\ runs[c].pc = "precursive"
                /\ runs'[c].pc # "precursive")
                 => "precursive_url" \notin runs'[c].resolved
      ]_vars

\* A second sync, ended without any resolution, of a project whose two ids
\* an earlier sync took from the stored URLs.
C14_Witness ==
    /\ project.jira_url # NoUrl /\ project.jira_project_key # ""
    /\ project.precursive_url # "" /\ project.precursive_id # ""
    /\ project.last_synced_at # 0
    /\ \E c \in Ctx : runs[c].pc = "close" /\ runs[c].resolved = {}

\* C16: a delivery sync that succeeds with no financial data and no risk data
\* from the remote, for a project without cached budget and without risks,
\* leaves the project with non-null budget figures and at least one risk.
C16_SyntheticFallback ==
    [][\A c \in Ctx :
          (/\ DeliveryEnds(c) /\ runs'[c].pc = "close"
           /\ runs'[c].precursive.success
           /\ ~runs'[c].remote_data.financial
           /\ ~runs'[c].remote_data.risk
           /\ project.total_budget = None
           /\ project.spent_budget = None
           /\ project.remaining_budget = None
           /\ risks = <<>>)
          => /\ project'.total_budget # None
             /\ project'.remaining_budget # None
             /\ risks' # <<>>
      ]_vars

\* C21: when the fetch or the commit of an issue pass raises, the action
\* table is what it was before the pass ended, nothing of the pass stays
\* pending in the session, and the result has success false, the text of the
\* exception as error and the count of the issues fetched before the failure
\* (none when it was the fetch that failed).
C21_Rollback ==
    [][\A c \in Ctx :
          (/\ runs[c].pc \in {"jira", "jira_commit"}
           /\ runs'[c].pc \notin {"jira", "jira_commit"}
           /\ runs'[c].jira.error # "")
          => /\ actions' = actions
             /\ runs'[c].work = NoWork
             /\ ~runs'[c].jira.success
             /\ runs'[c].jira.error =
                  IF runs[c].pc = "jira" THEN "Jira API error" ELSE "commit failed"
             /\ runs'[c].jira.actions_count =
                  IF runs[c].pc = "jira" THEN 0 ELSE Len(runs[c].fetched)
      ]_vars

\* A pass that fetched issues and whose commit failed: the count is reported,
\* the table is still empty.
C21_Witness ==
    /\ actions = <<>>
    /\ \E c \in Ctx :
         /\ runs[c].jira.error = "commit failed"
         /\ ~runs[c].jira.success
         /\ runs[c].jira.actions_count > 0

\* C22: at the end of sync_precursive_data the error is the messages of the
\* steps that failed, joined: the financials step's exactly when its figures
\* could not be computed, the risk step's when the risk level could not be
\* mapped or the commit failed; success is false exactly when there is an
\* error; a failed financials step does not keep the risk step from storing
\* the embedded risk; a remote that returns nothing fails no step.
C22_StepIsolation ==
    [][\A c \in Ctx :
          DeliveryEnds(c)
          => LET res == runs'[c].precursive
                 data == runs'[c].remote_data
                 F == "Financials sync failed: not a number"
                 R == {"Risk sync failed: not a string", "Risk sync failed: commit failed"}
             IN  /\ res.success <=> res.error = ""
                 /\ res.error \in {""} \cup {F} \cup R \cup {F \o "; " \o m : m \in R}
                 /\ data.bad_figures <=> res.error \in {F} \cup {F \o "; " \o m : m \in R}
                 /\ data.bad_level => res.error \in
                        {"Risk sync failed: not a string",
                         F \o "; " \o "Risk sync failed: not a string"}
                 /\ (data.bad_figures /\ data.risk /\ res.error = F)
                        => /\ res.risks_count = 1
                           /\ \E i \in DOMAIN risks' : risks'[i].source = "precursive"
                 /\ (~data.bad_figures /\ ~data.bad_level /\ res.error # "")
                        => res.error = "Risk sync failed: commit failed"
      ]_vars

\* A delivery sync whose financials step failed and whose risk step stored
\* the embedded risk.
C22_Witness ==
    \E c \in Ctx :
        /\ runs[c].pc = "close"
        /\ runs[c].remote_data.bad_figures
        /\ runs[c].precursive.error = "Financials sync failed: not a number"
        /\ runs[c].precursive.risks_count = 1
        /\ \E i \in DOMAIN risks : risks[i].source = "precursive"

\* The figures of a financials record that are present.
Figures(f) ==
    {x \in {f.remaining_budget, f.total_fte_days, f.fte_day_price, f.overrun_investment,
            f.pm_budget, f.sa_budget, f.de_budget, f.ds_budget} : x # None}

\* C23: a delivery sync that succeeds with financials carrying at least one
\* figure, a 0 included, stores the remaining budget it was given; with the
\* remaining budget as the only figure, total_budget is left as it was.
C23_BudgetUpdate ==
    [][\A c \in Ctx :
          (/\ DeliveryEnds(c)
           /\ runs'[c].precursive.success
           /\ runs'[c].remote_data.financials # None)
          => LET f == Val(runs'[c].remote_data.financials)
             IN  /\ (Figures(f) # {} /\ f.remaining_budget # None)
                      => project'.remaining_budget = f.remaining_budget
                 /\ Figures(f) = {f.remaining_budget}
                      => project'.total_budget = project.total_budget
      ]_vars

\* C24: a query whose first GET is answered with 401 drops the cached token,
\* authenticates once more and sends the GET once more; when that fails too
\* the call ends with an IntegrationError.
C24_ReauthOnce ==
    (call.fn = "query" /\ call.result.gets >= 1 /\ call.first = 401)
    => /\ call.result.discarded
       /\ call.result.reauths = 1
       /\ (call.reauth_ok => call.result.gets = 2)
       /\ (~call.reauth_ok \/ call.second # 200) => call.result.error = "IntegrationError"

RECURSIVE SumSeq(_)
SumSeq(s) == IF s = <<>> THEN 0 ELSE Head(s) + SumSeq(Tail(s))

\* C25: a search asks for each page at the offset of the issues received so
\* far; it goes on exactly while fewer than max_results issues are collected
\* and every page came back full, so it sends at most as many requests as
\* full pages fit in max_results (none for max_results 0) and ends; it
\* returns the issues collected, cut to max_results.
C25_Pagination ==
    call.fn = "search" =>
        LET full == {k \in DOMAIN call.pages : call.pages[k] >= call.page_size}
            n == Len(call.requests)
        IN  /\ \A k \in DOMAIN call.requests :
                  call.requests[k] = SumSeq(SubSeq(call.pages, 1, k - 1))
            /\ call.issues = SumSeq(call.pages)
            /\ call.max_results = 0 => n = 0 /\ call.pc = "done" /\ call.result = 0
            /\ call.max_results > 0 =>
                  n * call.page_size < call.max_results + call.page_size
            /\ call.pc = "loop" =>
                  /\ call.issues < call.max_results
                  /\ full = DOMAIN call.pages
                  /\ call.start_at = call.issues
            /\ (call.pc = "done" /\ call.max_results > 0) =>
                  /\ n = Len(call.pages) /\ n >= 1
                  /\ \A k \in 1..(n - 1) : k \in full
                  /\ call.issues >= call.max_results \/ n \notin full
                  /\ call.result <= call.max_results
                  /\ call.result = Min(call.issues, call.max_results)

\* A search that ended after several full pages, on the page that met
\* max_results.
C25_Witness ==
    /\ call.fn = "search" /\ call.pc = "done"
    /\ Len(call.requests) = 3
    /\ call.result = call.max_results
    /\ call.requests[3] = 2 * JIRA_PAGE_CAP

\* C26: the cutoff of an incremental issue sync is the date of the latest
\* completion time among the succeeded jira jobs, less the margin; without
\* such a job there is none, whatever failed, queued or running jobs the
\* ledger holds.
C26_CutoffSource ==
    (call.fn = "updated_since" /\ ~call.force_full) =>
        LET S == SucceededJiraTimes(call.ledger)
        IN  IF S = {} THEN call.result = None
            ELSE \E T \in S :
                   /\ \A U \in S : U <= T
                   /\ call.result = Some((T - 5) \div 1440)

\* A ledger with a succeeded jira job and a failed one that ended later: the
\* cutoff is that of the succeeded job.
C26_Witness ==
    /\ call.fn = "updated_since" /\ ~call.force_full
    /\ \E i, j \in DOMAIN call.ledger :
         /\ call.ledger[i].job_type = JIRA /\ call.ledger[i].status = SUCCEEDED
         /\ call.ledger[j].job_type = JIRA /\ call.ledger[j].status = FAILED
         /\ call.ledger[j].completed_at > call.ledger[i].completed_at
         /\ call.result = Some((call.ledger[i].completed_at - 5) \div 1440)
         /\ call.result # Some((call.ledger[j].completed_at - 5) \div 1440)

\* The rows of the risk table that carry the source tag of the embedded risk.
EmbeddedRisks(table) == {i \in DOMAIN table : table[i].source = "precursive"}

AreasSucceeded(r) ==
    IF r.kind = JIRA THEN r.jira.success
    ELSE IF r.kind = PRECURSIVE THEN r.precursive.success
    ELSE /\ r.precursive.success
         /\ r.jira.success \/ r.jira.message = "Jira not configured"

\* C28: a job is marked succeeded only if the result its routine returned
\* had success = true for every area it ran.
C28_SucceededOnlyOnSuccess ==
    \A j \in DOMAIN jobs :
        (jobs[j].status = SUCCEEDED /\ runs[j].pc = "returned")
        => AreasSucceeded(runs[j])


\* The contexts whose sync_jira_data is between its remote call and the end
\* of its commit.
IssuePasses == {c \in Ctx : runs[c].pc \in {"jira", "jira_commit"}}

\* C29: at most one issue pass of the project is executing at any time,
\* background jobs and synchronous syncs counted together, and so no two
\* action items carry the same issue key.
C29_OnePassAtATime ==
    /\ Cardinality(IssuePasses) <= 1
    /\ \A i, k \in DOMAIN actions : actions[i].jira_key = actions[k].jira_key => i = k


\* C30: whenever the latest issue-sync job has succeeded, every issue of the
\* remote project that is as that job fetched it has an action item carrying
\* its key, an issue the pass skipped on a per-issue error included.
C30_NoDataLoss ==
    (/\ jobs # <<>>
     /\ jobs[Len(jobs)].job_type = JIRA
     /\ jobs[Len(jobs)].status = SUCCEEDED
     /\ synced.valid)
    => \A n \in DOMAIN remote :
         (\E m \in DOMAIN synced.issues : synced.issues[m] = remote[n])
         => \E i \in DOMAIN actions : actions[i].jira_key = remote[n].key


====
